---- MODULE Spec2Model ----
(***************************************************************************)
(* The Filez client of src/filez/filez.py as a state machine.              *)
(*                                                                         *)
(* One client object is modelled together with a recording HTTP transport. *)
(* Every public method of the class is one action; its arguments and the   *)
(* answer of the transport are drawn from small sets.                      *)
(*                                                                         *)
(* Python values that may be None are written as sequences: None is <<>>,  *)
(* a present value v is <<v>>; an argument left out of a call, so that the *)
(* default of the signature applies, is Omitted.                           *)
(***************************************************************************)
EXTENDS Integers, Sequences, FiniteSets, TLC

VARIABLES
    client,         \* "none": no object constructed yet, "live": constructed
    app_key,        \* self.app_key
    app_secret,     \* self.app_secret
    https,          \* self.https
    host,           \* self.host
    version,        \* self.version
    base_url,       \* self.base_url
    access_token,   \* self.access_token
    request_count,  \* calls of requests.request recorded by the transport
    sent,           \* the requests issued by the latest invocation, in order
    transport,      \* what the transport answered to the latest invocation
    call,           \* the latest invocation: operation and arguments
    result,         \* how the latest invocation ended: a return or a raise
    issued          \* access_token of the latest token() call that returned

vars == <<client, app_key, app_secret, https, host, version, base_url,
          access_token, request_count, sent, transport, call, result, issued>>

credentials == <<app_key, app_secret, https, host, version, base_url>>

----------------------------------------------------------------------------
(* Bounds of the model.                                                    *)

\* the transport records at most this many requests
MaxRequests == 3
\* longest privileges / uids list handed to auth_create / auth_delete
MaxList == 2

----------------------------------------------------------------------------
(* Python values.                                                          *)

None == <<>>
Some(v) == <<v>>
Omitted == <<"", "omitted">>

\* a parameter with a default value in the signature
default(arg, dflt) == IF arg = Omitted THEN dflt ELSE arg

\* truth value of an optional string: None and "" are falsy
truthy_str(x) == x # None /\ x[1] # ""

\* truth value of an optional integer: None and 0 are falsy
truthy_int(x) == x # None /\ x[1] # 0

\* str() of an integer
str_int(n) == ToString(n)

\* dict.get(key): None when the key is absent
dict_get(d, key) == IF key \in DOMAIN d THEN Some(d[key]) ELSE None

Return(type, value) == [kind |-> "return", type |-> type, value |-> value]
Raise(type, value) == [kind |-> "raise", type |-> type, value |-> value]

----------------------------------------------------------------------------
(* Messages of the exceptions the client raises (rendered in ASCII).       *)

ERR_CONFIG == "app_key,app_secret,host must not be empty"
ERR_NO_TOKEN == "obtain a token first"
ERR_TOKEN_DATA == "token data abnormal"
ERR_URL == "url check failed, check whether the url is correct"
ERR_UNKNOWN == "unknown exception"
ERR_USER_INFO == "uid and user_slug must not both be empty"
ERR_FILE_INFO == "neid and path must not both be empty"
ERR_NEID == "neid must not be empty"
ERR_NO_FILE == "file does not exist"
ERR_PATH_TYPE == "path_type parameter error"
ERR_PRIVILEGE == "privilege parameter error"

----------------------------------------------------------------------------
(* base64.b64encode(s.encode("utf-8")).decode("utf-8") for ASCII text.     *)

\* the characters of code points 48..58, 65..90 and 97..122
Digits == "0123456789:"
Upper == "ABCDEFGHIJKLMNOPQRSTUVWXYZ"
Lower == "abcdefghijklmnopqrstuvwxyz"

B64Alphabet ==
    "ABCDEFGHIJKLMNOPQRSTUVWXYZabcdefghijklmnopqrstuvwxyz0123456789+/"

\* position of the one-character string c in s, 0 when it is not there
index(s, c) ==
    IF \E i \in 1..Len(s) : SubSeq(s, i, i) = c
    THEN CHOOSE i \in 1..Len(s) : SubSeq(s, i, i) = c
    ELSE 0

\* ord() of a one-character string, for the digits, the colon and the letters
ord(c) ==
    IF index(Digits, c) > 0 THEN 47 + index(Digits, c)
    ELSE IF index(Upper, c) > 0 THEN 64 + index(Upper, c)
    ELSE 96 + index(Lower, c)

\* str.encode("utf-8"), for ASCII text: one byte per character
encode_utf8(s) == [i \in 1..Len(s) |-> ord(SubSeq(s, i, i))]

b64char(n) == SubSeq(B64Alphabet, n + 1, n + 1)

RECURSIVE b64encode(_)
b64encode(bytes) ==
    IF Len(bytes) = 0 THEN ""
    ELSE IF Len(bytes) = 1 THEN
        b64char(bytes[1] \div 4) \o b64char((bytes[1] % 4) * 16) \o "=="
    ELSE IF Len(bytes) = 2 THEN
        b64char(bytes[1] \div 4)
        \o b64char((bytes[1] % 4) * 16 + bytes[2] \div 16)
        \o b64char((bytes[2] % 16) * 4) \o "="
    ELSE
        b64char(bytes[1] \div 4)
        \o b64char((bytes[1] % 4) * 16 + bytes[2] \div 16)
        \o b64char((bytes[2] % 16) * 4 + bytes[3] \div 64)
        \o b64char(bytes[3] % 64)
        \o b64encode(SubSeq(bytes, 4, Len(bytes)))

----------------------------------------------------------------------------
(* The HTTP transport: requests.request either raises or answers.          *)

\* classes of an exception raised by requests.request, with its base classes
Mro(exc) ==
    CASE exc = "ConnectionRefusedError" ->
            {"ConnectionRefusedError", "ConnectionError", "OSError", "Exception"}
      [] exc = "requests.exceptions.ConnectionError" ->
            {"requests.exceptions.ConnectionError",
             "requests.exceptions.RequestException", "OSError", "Exception"}
      [] exc = "requests.exceptions.ReadTimeout" ->
            {"requests.exceptions.ReadTimeout", "requests.exceptions.Timeout",
             "requests.exceptions.RequestException", "OSError", "Exception"}

\* exceptions of the transport that report a failed connection
ConnectionFailures ==
    {"ConnectionRefusedError", "requests.exceptions.ConnectionError"}

TransportErrors == ConnectionFailures \cup {"requests.exceptions.ReadTimeout"}

BODY_TOKEN_A == "{\"access_token\": \"abc\"}"
BODY_TOKEN_B == "{\"access_token\": \"xyz\"}"
BODY_TOKEN_EMPTY == "{\"access_token\": \"\"}"
BODY_OK == "{\"errcode\": 0, \"errmsg\": \"ok\"}"
BODY_ERROR == "{\"errcode\": 404, \"errmsg\": \"not found\"}"
BODY_HTML == "<html>502 Bad Gateway</html>"

\* json.loads of a response text: None when the text is not JSON
json_loads(text) ==
    CASE text = BODY_TOKEN_A -> Some([access_token |-> "abc"])
      [] text = BODY_TOKEN_B -> Some([access_token |-> "xyz"])
      [] text = BODY_TOKEN_EMPTY -> Some([access_token |-> ""])
      [] text = BODY_OK -> Some([errcode |-> 0, errmsg |-> "ok"])
      [] text = BODY_ERROR -> Some([errcode |-> 404, errmsg |-> "not found"])
      [] OTHER -> None

HTTP_OK == 200

Raised(exc) == [exc |-> exc, status_code |-> 0, text |-> ""]
Response(status, text) == [exc |-> "", status_code |-> status, text |-> text]

\* what requests.request may do with the request of token()
TokenTransport ==
    {Raised(e) : e \in TransportErrors}
    \cup {Response(HTTP_OK, b) :
            b \in {BODY_TOKEN_A, BODY_TOKEN_B, BODY_TOKEN_EMPTY, BODY_OK, BODY_HTML}}
    \cup {Response(404, BODY_ERROR)}

\* what requests.request may do with the request of a resource operation
Transport ==
    {Raised(e) : e \in TransportErrors}
    \cup {Response(HTTP_OK, b) : b \in {BODY_OK, BODY_TOKEN_A, BODY_HTML}}
    \cup {Response(404, BODY_ERROR)}

\* response.content: the bytes that decode to response.text
content(t) == <<"bytes", t.text>>

----------------------------------------------------------------------------
(* Code shared by the operations.                                          *)

\* the except clauses around requests.request
except_clause(exc) ==
    IF "ConnectionError" \in Mro(exc) THEN Raise("Exception", ERR_URL)
    ELSE Raise("Exception", ERR_UNKNOWN)

\* response.json()
response_json(t) ==
    IF json_loads(t.text) = None THEN Raise("JSONDecodeError", t.text)
    ELSE Return("dict", json_loads(t.text)[1])

\* (mutant) the error of a non-200 answer built from the errmsg of its JSON body
check_response_errmsg(t, returns) ==
    IF t.status_code # HTTP_OK
    THEN IF json_loads(t.text) = None THEN Raise("JSONDecodeError", t.text)
         ELSE Raise("Exception", dict_get(json_loads(t.text)[1], "errmsg"))
    ELSE IF returns = "content" THEN Return("bytes", content(t))
    ELSE response_json(t)

\* the status check and the return statement of a resource operation
\* (mutant) every operation parses the body, the download included
check_response_json_only(t, returns) ==
    IF t.status_code # HTTP_OK THEN Raise("Exception", t.text)
    ELSE response_json(t)

check_response(t, returns) ==
    IF t.status_code # HTTP_OK THEN Raise("Exception", t.text)
    ELSE IF returns = "content" THEN Return("bytes", content(t))
    ELSE response_json(t)

\* requests.request inside try/except, then the status check and the return
send(t, returns) ==
    IF t.exc # "" THEN except_clause(t.exc) ELSE check_response(t, returns)

\* (mutant) the request is sent again after an exception of the transport
attempts_retry(t) == IF t.exc # "" THEN 2 ELSE 1

\* calls of requests.request made by one try block
attempts(t) == 1

\* (mutant) the decorator lets every call through
check_token_off(tok) == TRUE

\* the decorator's test: the wrapped method runs only with a token
check_token(tok) == truthy_str(tok)

\* (mutant) the token sent under the scheme of the token exchange
bearer_as_basic(tok) == "Basic " \o tok[1]

\* 'Bearer ' + self.access_token
bearer(tok) == "Bearer " \o tok[1]

FORM == "application/x-www-form-urlencoded"

form_headers(tok) ==
    ("Content-Type" :> FORM) @@ ("Authorization" :> bearer(tok))

auth_headers(tok) == ("Authorization" :> bearer(tok))

Request(method, url, headers, data) ==
    [method |-> method, url |-> url, headers |-> headers, data |-> data]

----------------------------------------------------------------------------
(* Filez.__init__                                                          *)

Keys == {None, Some(""), Some("ak")}
Secrets == {None, Some(""), Some("sk")}
Hosts == {None, Some(""), Some("filez.xxx.com:3333")}

\* https and version: both left out, or both given
Options ==
    {[https |-> Omitted, version |-> Omitted],
     [https |-> Some(FALSE), version |-> Some("v2")],
     [https |-> Some(TRUE), version |-> Some("v1")]}

Configs ==
    {[app_key |-> k, app_secret |-> s, host |-> h,
      https |-> o.https, version |-> o.version] :
        k \in Keys, s \in Secrets, h \in Hosts, o \in Options}

\* (mutant) the host is not looked at
config_ok_no_host(cfg) ==
    truthy_str(cfg.app_key) /\ truthy_str(cfg.app_secret)

\* the test on the configuration: all three must be truthy
config_ok(cfg) ==
    truthy_str(cfg.app_key) /\ truthy_str(cfg.app_secret) /\ truthy_str(cfg.host)

\* (mutant) the https flag is not looked at
make_base_url_plain(use_https, h, v) ==
    "http" \o "://" \o h \o "/" \o v

make_base_url(use_https, h, v) ==
    "http" \o (IF use_https THEN "s" ELSE "") \o "://" \o h \o "/" \o v

Filez_init ==
    \E cfg \in Configs :
        /\ client = "none"
        /\ call' = [op |-> "__init__", args |-> cfg]
        /\ sent' = <<>>
        /\ transport' = None
        /\ UNCHANGED <<request_count, issued>>
        /\ IF ~config_ok(cfg)
           THEN /\ result' = Raise("Exception", ERR_CONFIG)
                /\ UNCHANGED <<client, credentials, access_token>>
           ELSE IF cfg.app_key = None \/ cfg.app_secret = None \/ cfg.host = None
           THEN \* the concatenation of base_url needs strings
                /\ result' = Raise("TypeError", "can only concatenate str to str")
                /\ UNCHANGED <<client, credentials, access_token>>
           ELSE /\ client' = "live"
                /\ app_key' = cfg.app_key[1]
                /\ app_secret' = cfg.app_secret[1]
                /\ https' = default(cfg.https, Some(FALSE))[1]
                /\ host' = cfg.host[1]
                /\ version' = default(cfg.version, Some("v2"))[1]
                /\ access_token' = None
                /\ base_url' = make_base_url(default(cfg.https, Some(FALSE))[1],
                                             cfg.host[1],
                                             default(cfg.version, Some("v2"))[1])
                /\ result' = Return("Filez", None)

----------------------------------------------------------------------------
(* Filez.token                                                             *)

Slugs == {"admin", "aiden"}

\* (mutant) the credentials are sent without the base64 encoding
basic_plain(key, secret) ==
    "Basic " \o key \o ":" \o secret

basic(key, secret) ==
    "Basic " \o b64encode(encode_utf8(key \o ":" \o secret))

token_request(slug) ==
    Request("POST", base_url \o "/oauth/token",
            ("Content-Type" :> FORM) @@ ("Authorization" :> basic(app_key, app_secret)),
            [grant_type |-> "client_with_su", scope |-> "all", slug |-> slug])

\* (mutant) only a missing access_token is refused, an empty one is stored
has_access_token_present(token_data) ==
    dict_get(token_data, "access_token") # None

\* the test on the parsed body: access_token must be there and truthy
has_access_token(token_data) ==
    truthy_str(dict_get(token_data, "access_token"))

\* (mutant) the access_token of the body is stored without the test
token_body_unchecked(tok, t) ==
    IF t.exc # "" THEN [result |-> except_clause(t.exc), access_token |-> tok]
    ELSE IF t.status_code # HTTP_OK
    THEN [result |-> Raise("Exception", t.text), access_token |-> tok]
    ELSE IF response_json(t).kind = "raise"
    THEN [result |-> response_json(t), access_token |-> tok]
    ELSE [result |-> Return("NoneType", None),
          access_token |-> dict_get(response_json(t).value, "access_token")]

\* (mutant) the stored token is dropped before the exchange
token_body_clearing(tok, t) ==
    IF t.exc # "" THEN [result |-> except_clause(t.exc), access_token |-> None]
    ELSE IF t.status_code # HTTP_OK
    THEN [result |-> Raise("Exception", t.text), access_token |-> None]
    ELSE IF response_json(t).kind = "raise"
    THEN [result |-> response_json(t), access_token |-> None]
    ELSE IF ~has_access_token(response_json(t).value)
    THEN [result |-> Raise("Exception", ERR_TOKEN_DATA), access_token |-> None]
    ELSE [result |-> Return("NoneType", None),
          access_token |-> dict_get(response_json(t).value, "access_token")]

\* what token() does with the answer of the transport: how it ends, and the
\* value of self.access_token afterwards
\* (mutant) the field of the answer is stored before it is tested
token_body_store_first(tok, t) ==
    IF t.exc # "" THEN [result |-> except_clause(t.exc), access_token |-> tok]
    ELSE IF t.status_code # HTTP_OK
    THEN [result |-> Raise("Exception", t.text), access_token |-> tok]
    ELSE IF response_json(t).kind = "raise"
    THEN [result |-> response_json(t), access_token |-> tok]
    ELSE IF ~has_access_token(response_json(t).value)
    THEN [result |-> Raise("Exception", ERR_TOKEN_DATA),
          access_token |-> dict_get(response_json(t).value, "access_token")]
    ELSE [result |-> Return("NoneType", None),
          access_token |-> dict_get(response_json(t).value, "access_token")]

token_body(tok, t) ==
    IF t.exc # "" THEN [result |-> except_clause(t.exc), access_token |-> tok]
    ELSE IF t.status_code # HTTP_OK
    THEN [result |-> Raise("Exception", t.text), access_token |-> tok]
    ELSE IF response_json(t).kind = "raise"
    THEN [result |-> response_json(t), access_token |-> tok]
    ELSE IF ~has_access_token(response_json(t).value)
    THEN [result |-> Raise("Exception", ERR_TOKEN_DATA), access_token |-> tok]
    ELSE [result |-> Return("NoneType", None),
          access_token |-> dict_get(response_json(t).value, "access_token")]

\* (mutant) the URL of the token request is kept as the base URL
token_keeping_url ==
    \E slug \in Slugs, t \in TokenTransport :
        /\ client = "live"
        /\ request_count < MaxRequests
        /\ call' = [op |-> "token", args |-> [slug |-> slug]]
        /\ sent' = [i \in 1..attempts(t) |-> token_request(slug)]
        /\ request_count' = request_count + attempts(t)
        /\ transport' = Some(t)
        /\ result' = token_body(access_token, t).result
        /\ access_token' = token_body(access_token, t).access_token
        /\ issued' = IF token_body(access_token, t).result.kind = "return"
                     THEN dict_get(json_loads(t.text)[1], "access_token")
                     ELSE issued
        /\ base_url' = token_request(slug).url
        /\ UNCHANGED <<client, app_key, app_secret, https, host, version>>

token ==
    \E slug \in Slugs, t \in TokenTransport :
        /\ client = "live"
        /\ request_count < MaxRequests
        /\ call' = [op |-> "token", args |-> [slug |-> slug]]
        /\ sent' = [i \in 1..attempts(t) |-> token_request(slug)]
        /\ request_count' = request_count + attempts(t)
        /\ transport' = Some(t)
        /\ result' = token_body(access_token, t).result
        /\ access_token' = token_body(access_token, t).access_token
        /\ issued' = IF token_body(access_token, t).result.kind = "return"
                     THEN dict_get(json_loads(t.text)[1], "access_token")
                     ELSE issued
        /\ UNCHANGED <<client, credentials>>

----------------------------------------------------------------------------
(* The resource operations: every one is wrapped by check_token.           *)

\* A wrapped method. early is the exception the body raises before it calls
\* requests.request (None when it raises none), req the request it builds.
\* (mutant) the arguments are validated before the token is looked at
guarded_validating_first(op, args, early, req, returns) ==
    /\ client = "live"
    /\ call' = [op |-> op, args |-> args]
    /\ UNCHANGED <<client, credentials, access_token, issued>>
    /\ IF early # None
       THEN /\ result' = early[1]
            /\ sent' = <<>>
            /\ transport' = None
            /\ UNCHANGED request_count
       ELSE IF ~check_token(access_token)
       THEN /\ result' = Raise("Exception", ERR_NO_TOKEN)
            /\ sent' = <<>>
            /\ transport' = None
            /\ UNCHANGED request_count
       ELSE \E t \in Transport :
            /\ request_count < MaxRequests
            /\ sent' = [i \in 1..attempts(t) |-> req]
            /\ request_count' = request_count + attempts(t)
            /\ transport' = Some(t)
            /\ result' = send(t, returns)

guarded(op, args, early, req, returns) ==
    /\ client = "live"
    /\ call' = [op |-> op, args |-> args]
    /\ UNCHANGED <<client, credentials, access_token, issued>>
    /\ IF ~check_token(access_token)
       THEN /\ result' = Raise("Exception", ERR_NO_TOKEN)
            /\ sent' = <<>>
            /\ transport' = None
            /\ UNCHANGED request_count
       ELSE IF access_token = None
       THEN /\ result' = Raise("TypeError", "can only concatenate str to str")
            /\ sent' = <<>>
            /\ transport' = None
            /\ UNCHANGED request_count
       ELSE IF early # None
       THEN /\ result' = early[1]
            /\ sent' = <<>>
            /\ transport' = None
            /\ UNCHANGED request_count
       ELSE \E t \in Transport :
            /\ request_count < MaxRequests
            /\ sent' = [i \in 1..attempts(t) |-> req]
            /\ request_count' = request_count + attempts(t)
            /\ transport' = Some(t)
            /\ result' = send(t, returns)

----------------------------------------------------------------------------
(* User operations.                                                        *)

Users ==
    {[email |-> "10025@qq.com", mobile |-> Some("13812342345"),
      password |-> "123456", quota |-> None, status |-> None,
      user_name |-> "user025", user_slug |-> "user025"]}

\* UserInfo.dict(): the fields of the model by name
user_dict(user) == [k \in DOMAIN user |-> user[k]]

user_create ==
    \E user \in Users :
        guarded("user_create", [user |-> user], None,
                Request("POST", base_url \o "/user", form_headers(access_token),
                        Some(user_dict(user))),
                "json")

Uids == {None, Some(0), Some(152)}
UserSlugs == {None, Some(""), Some("user025")}

\* (mutant) the two identifiers are not looked at
user_info_early_off(uid, user_slug) == None

user_info_early(uid, user_slug) ==
    IF uid = None /\ user_slug = None
    THEN Some(Raise("Exception", ERR_USER_INFO))
    ELSE None

\* (mutant) the user lookup leaves out the /api segment
user_info_url_bare(base, uid, user_slug) ==
    base \o "/user"
    \o (IF truthy_int(uid) THEN "/" \o str_int(uid[1]) ELSE "")
    \o (IF truthy_str(user_slug) THEN "/slug?user_slug=" \o user_slug[1] ELSE "")

user_info_url(base, uid, user_slug) ==
    base \o "/api/user"
    \o (IF truthy_int(uid) THEN "/" \o str_int(uid[1]) ELSE "")
    \o (IF truthy_str(user_slug) THEN "/slug?user_slug=" \o user_slug[1] ELSE "")

user_info ==
    \E uid \in Uids, user_slug \in UserSlugs :
        guarded("user_info", [uid |-> uid, user_slug |-> user_slug],
                user_info_early(uid, user_slug),
                Request("GET", user_info_url(base_url, uid, user_slug),
                        auth_headers(access_token), None),
                "json")

PageNums == {0, 1}
PageSizes == {10}

user_list ==
    \E page_num \in {0}, page_size \in PageSizes :
        guarded("user_list", [page_num |-> page_num, page_size |-> page_size], None,
                Request("GET",
                        base_url \o "/api/user" \o "?page_num=" \o str_int(page_num)
                        \o "&page_size=" \o str_int(page_size),
                        auth_headers(access_token), None),
                "json")

----------------------------------------------------------------------------
(* Team operations.                                                        *)

Tids == {2, 99}

team_list ==
    guarded("team_list", <<>>, None,
                Request("GET", base_url \o "/api/team", auth_headers(access_token), None),
                "json")

team_info ==
    \E tid \in Tids :
        guarded("team_info", [tid |-> tid], None,
                Request("GET", base_url \o "/api/team/" \o str_int(tid),
                        auth_headers(access_token), None),
                "json")

team_user_list ==
    \E tid \in {2}, page_num \in {1}, page_size \in PageSizes :
        guarded("team_user_list",
                [tid |-> tid, page_num |-> page_num, page_size |-> page_size], None,
                Request("GET",
                        base_url \o "/api/teamuser/" \o str_int(tid)
                        \o "/users?page_num=" \o str_int(page_num)
                        \o "&page_size=" \o str_int(page_size),
                        auth_headers(access_token), None),
                "json")

----------------------------------------------------------------------------
(* File operations.                                                        *)

Paths == {"/a/b"}
Neids == {None, Some("1599694982598365196")}
Nsids == {None, Some(2)}
OptPaths == {None} \cup {Some(p) : p \in Paths}
PathTypes == {Omitted, None, Some("self"), Some("team")}

\* (mutant) the two paging values change places
file_list_payload_swapped(path, page_num, page_size) ==
    [path |-> path, path_type |-> "ent", page_num |-> page_size, page_size |-> page_num]

file_list_payload(path, page_num, page_size) ==
    [path |-> path, path_type |-> "ent", page_num |-> page_num, page_size |-> page_size]

file_list ==
    \E path \in Paths, page_num \in PageNums, page_size \in PageSizes :
        guarded("file_list",
                [path |-> path, page_num |-> page_num, page_size |-> page_size], None,
                Request("POST", base_url \o "/api/file", form_headers(access_token),
                        Some(file_list_payload(path, page_num, page_size))),
                "json")

\* nsid = 1 when the caller passed None
\* (mutant) the caller's nsid is dropped
nsid_or_default_always(nsid) == 1

nsid_or_default(nsid) == IF nsid = None THEN 1 ELSE nsid[1]

\* (mutant) the two identifiers are not looked at
file_info_early_off(neid, path) == None

file_info_early(neid, path) ==
    IF neid = None /\ path = None
    THEN Some(Raise("Exception", ERR_FILE_INFO))
    ELSE None

\* (mutant) a given path wins over a given neid
file_info_request_path_first(base, tok, neid, nsid, path) ==
    IF path # None
    THEN Request("POST", base \o "/api/file" \o "/path", form_headers(tok),
                 Some([path |-> path, path_type |-> "ent"]))
    ELSE Request("GET",
                 base \o "/api/file" \o "/" \o neid[1] \o "/?nsid="
                 \o str_int(nsid_or_default(nsid)),
                 form_headers(tok), None)

file_info_request(base, tok, neid, nsid, path) ==
    IF neid = None
    THEN Request("POST", base \o "/api/file" \o "/path", form_headers(tok),
                 Some([path |-> path, path_type |-> "ent"]))
    ELSE Request("GET",
                 base \o "/api/file" \o "/" \o neid[1] \o "/?nsid="
                 \o str_int(nsid_or_default(nsid)),
                 form_headers(tok), None)

file_info ==
    \E neid \in Neids, nsid \in Nsids \cup {Omitted}, path \in OptPaths :
        guarded("file_info", [neid |-> neid, nsid |-> nsid, path |-> path],
                file_info_early(neid, path),
                file_info_request(base_url, access_token, neid,
                                  default(nsid, Some(1)), path),
                "json")

file_delete_early(neid) ==
    IF neid = None THEN Some(Raise("Exception", ERR_NEID)) ELSE None

file_delete ==
    \E nsid \in Nsids, neid \in Neids :
        guarded("file_delete", [nsid |-> nsid, neid |-> neid],
                file_delete_early(neid),
                Request("DELETE",
                        base_url \o "/api/file" \o "/" \o neid[1] \o "?nsid="
                        \o str_int(nsid_or_default(nsid)),
                        form_headers(access_token), None),
                "json")

\* path_type = "ent" when the caller passed None
\* (mutant) the caller's path_type is dropped
path_type_or_default_ent(path_type) == "ent"

path_type_or_default(path_type) == IF path_type = None THEN "ent" ELSE path_type[1]

create_folder ==
    \E path \in Paths, path_type \in PathTypes :
        guarded("create_folder", [path |-> path, path_type |-> path_type], None,
                Request("POST", base_url \o "/api/file/folder", form_headers(access_token),
                        Some([path |-> path,
                              path_type |->
                                path_type_or_default(default(path_type, Some("ent")))])),
                "json")

FromNsids == {1}
FromNeids == {"1596056484678996029"}
ToPaths == {"/demo1/aa1"}

copy_payload(from_nsid, from_neid, to_path, to_path_type) ==
    [nsid |-> from_nsid, from_neid |-> from_neid, to_path |-> to_path,
     to_path_type |-> path_type_or_default(to_path_type)]

file_copy ==
    \E from_nsid \in FromNsids, from_neid \in FromNeids, to_path \in ToPaths,
       to_path_type \in PathTypes :
        guarded("file_copy",
                [from_nsid |-> from_nsid, from_neid |-> from_neid, to_path |-> to_path,
                 to_path_type |-> to_path_type], None,
                Request("POST", base_url \o "/api/file/copy", form_headers(access_token),
                        Some(copy_payload(from_nsid, from_neid, to_path,
                                          default(to_path_type, Some("ent"))))),
                "json")

file_move ==
    \E from_nsid \in FromNsids, from_neid \in FromNeids, to_path \in ToPaths,
       to_path_type \in PathTypes :
        guarded("file_move",
                [from_nsid |-> from_nsid, from_neid |-> from_neid, to_path |-> to_path,
                 to_path_type |-> to_path_type], None,
                Request("POST", base_url \o "/api/file/move", form_headers(access_token),
                        Some(copy_payload(from_nsid, from_neid, to_path,
                                          default(to_path_type, Some("ent"))))),
                "json")

\* the local files file_upload may be pointed at: a regular file, a path
\* that does not exist, a directory (it exists and cannot be opened for reading)
FilePaths == {"/data/xx.docx", "/data/missing.docx", "/data"}

file_kind(file_path) ==
    CASE file_path = "/data/xx.docx" -> "file"
      [] file_path = "/data" -> "dir"
      [] OTHER -> "missing"

file_bytes(file_path) == <<"bytes", "contents of " \o file_path>>

\* os.path.basename: what follows the last slash
basename(p) ==
    IF \E i \in 1..Len(p) : SubSeq(p, i, i) = "/"
    THEN LET last == CHOOSE i \in 1..Len(p) :
                        /\ SubSeq(p, i, i) = "/"
                        /\ \A j \in (i + 1)..Len(p) : SubSeq(p, j, j) # "/"
         IN SubSeq(p, last + 1, Len(p))
    ELSE p

\* boundaries encode_multipart_formdata may draw
Boundaries == {"3f1c", "a9e0"}

\* the existence check and the read of the file, before the request is built
file_upload_early(file_path) ==
    IF file_kind(file_path) = "missing" THEN Some(Raise("Exception", ERR_NO_FILE))
    ELSE IF file_kind(file_path) = "dir" THEN Some(Raise("IsADirectoryError", file_path))
    ELSE None

file_upload_request(base, tok, file_path, to_path, path_type, boundary) ==
    Request("POST", base \o "/api/file/content",
            ("Content-Type" :> ("multipart/form-data; boundary=" \o boundary))
            @@ ("Authorization" :> bearer(tok)),
            Some([multipart |->
                    [filedata |-> <<basename(file_path), file_bytes(file_path)>>,
                     path_type |-> path_type_or_default(path_type),
                     path |-> to_path],
                  boundary |-> boundary]))

file_upload ==
    \E file_path \in FilePaths, to_path \in ToPaths, path_type \in PathTypes,
       boundary \in Boundaries :
        guarded("file_upload",
                [file_path |-> file_path, to_path |-> to_path, path_type |-> path_type],
                file_upload_early(file_path),
                file_upload_request(base_url, access_token, file_path, to_path,
                                    default(path_type, Some("ent")), boundary),
                "json")

file_rename ==
    \E nsid \in FromNsids, from_neid \in FromNeids, to_file_name \in {"new.docx"} :
        guarded("file_rename",
                [nsid |-> nsid, from_neid |-> from_neid, to_file_name |-> to_file_name],
                None,
                Request("POST", base_url \o "/api/file/rename", form_headers(access_token),
                        Some([nsid |-> nsid, from_neid |-> from_neid,
                              to_file_name |-> to_file_name])),
                "json")

file_history ==
    \E nsid \in FromNsids, neid \in FromNeids :
        guarded("file_history", [nsid |-> nsid, neid |-> neid], None,
                Request("GET",
                        base_url \o "/api/file/" \o neid \o "/revision?nsid="
                        \o str_int(nsid),
                        form_headers(access_token), None),
                "json")

file_preview ==
    \E nsid \in FromNsids, neid \in FromNeids :
        guarded("file_preview", [nsid |-> nsid, neid |-> neid], None,
                Request("GET",
                        base_url \o "/api/preview/" \o neid \o "?nsid=" \o str_int(nsid),
                        form_headers(access_token), None),
                "json")

file_download ==
    \E nsid \in FromNsids, neid \in FromNeids :
        guarded("file_download", [nsid |-> nsid, neid |-> neid], None,
                Request("GET",
                        base_url \o "/api/file/content/download?neid=" \o neid
                        \o "&nsid=" \o str_int(nsid),
                        form_headers(access_token), None),
                "content")

----------------------------------------------------------------------------
(* Permission operations.                                                  *)

AuthPathTypes == {Some("ent"), Some("team")}
AuthListPathTypes == {None, Some("ent"), Some("self"), Some("team")}

\* the privilege codes auth_create accepts
PrivilegeCodes == {2009, 2007, 2005, 2003, 2001, 1011, 1000}

\* elements of a privileges list: dicts with the keys uid and privilege
PrivilegeItems ==
    {[uid |-> 4, privilege |-> 2001], [uid |-> 5, privilege |-> 1000],
     [uid |-> 6, privilege |-> 3000]}

SeqsUpTo(S, n) == UNION {[1..k -> S] : k \in 0..n}

path_type_valid(path_type) == path_type \in {Some("ent"), Some("self")}

\* (mutant) only the first element of privileges is looked at
auth_create_early_first(path_type, privileges) ==
    IF ~path_type_valid(path_type) THEN Some(Raise("Exception", ERR_PATH_TYPE))
    ELSE IF Len(privileges) > 0
            /\ dict_get(privileges[1], "privilege")
                    \notin {Some(c) : c \in PrivilegeCodes}
    THEN Some(Raise("Exception", ERR_PRIVILEGE))
    ELSE None

auth_create_early(path_type, privileges) ==
    IF ~path_type_valid(path_type) THEN Some(Raise("Exception", ERR_PATH_TYPE))
    ELSE IF \E i \in 1..Len(privileges) :
                dict_get(privileges[i], "privilege")
                    \notin {Some(c) : c \in PrivilegeCodes}
    THEN Some(Raise("Exception", ERR_PRIVILEGE))
    ELSE None

\* (mutant) the entries are appended at the front
auth_list_of_reversed(privileges) ==
    [i \in 1..Len(privileges) |->
        [agentId |-> dict_get(privileges[Len(privileges) + 1 - i], "uid"),
         agentType |-> "user",
         isSubteamInheritable |-> TRUE,
         privilegeType |-> dict_get(privileges[Len(privileges) + 1 - i], "privilege")]]

auth_list_of(privileges) ==
    [i \in 1..Len(privileges) |->
        [agentId |-> dict_get(privileges[i], "uid"),
         agentType |-> "user",
         isSubteamInheritable |-> TRUE,
         privilegeType |-> dict_get(privileges[i], "privilege")]]

\* json.dumps of a list of dicts: the text, kept as the value it encodes
json_dumps(value) == <<"json", value>>

auth_create ==
    \E nsid \in FromNsids, path_type \in AuthPathTypes, neid \in FromNeids,
       privileges \in SeqsUpTo(PrivilegeItems, MaxList) :
        guarded("auth_create",
                [nsid |-> nsid, path_type |-> path_type, neid |-> neid,
                 privileges |-> privileges],
                auth_create_early(path_type, privileges),
                Request("POST", base_url \o "/api/auth/batch_create",
                        form_headers(access_token),
                        Some([nsid |-> nsid, path_type |-> path_type[1],
                              file_list |-> json_dumps(<<[neid |-> neid]>>),
                              auth_list |-> json_dumps(auth_list_of(privileges))])),
                "json")

path_type_early(path_type) ==
    IF ~path_type_valid(path_type) THEN Some(Raise("Exception", ERR_PATH_TYPE))
    ELSE None

delete_list_of(uids) ==
    [i \in 1..Len(uids) |-> [agentId |-> uids[i], agentType |-> "user"]]

auth_delete ==
    \E nsid \in FromNsids, path_type \in AuthPathTypes, neid \in FromNeids,
       uids \in SeqsUpTo({4, 5}, MaxList) :
        guarded("auth_delete",
                [nsid |-> nsid, path_type |-> path_type, neid |-> neid, uids |-> uids],
                path_type_early(path_type),
                Request("DELETE", base_url \o "/api/auth/batch_delete",
                        form_headers(access_token),
                        Some([nsid |-> nsid, path_type |-> path_type[1],
                              file_list |-> json_dumps(<<[neid |-> neid]>>),
                              delete_list |-> json_dumps(delete_list_of(uids))])),
                "json")

auth_list ==
    \E nsid \in FromNsids, path_type \in AuthListPathTypes, neid \in FromNeids :
        guarded("auth_list", [nsid |-> nsid, path_type |-> path_type, neid |-> neid],
                path_type_early(path_type),
                Request("POST", base_url \o "/api/auth/list", form_headers(access_token),
                        Some([nsid |-> nsid, path_type |-> path_type[1],
                              file_list |-> json_dumps(<<[neid |-> neid]>>)])),
                "json")

----------------------------------------------------------------------------
Init ==
    /\ client = "none"
    /\ app_key = "" /\ app_secret = "" /\ https = FALSE /\ host = ""
    /\ version = "" /\ base_url = ""
    /\ access_token = None
    /\ request_count = 0
    /\ sent = <<>>
    /\ transport = None
    /\ call = [op |-> "", args |-> <<>>]
    /\ result = Return("NoneType", None)
    /\ issued = None

Next ==
    \/ Filez_init
    \/ token
    \/ user_create
    \/ user_info
    \/ user_list
    \/ team_list
    \/ team_info
    \/ team_user_list
    \/ file_list
    \/ file_info
    \/ file_delete
    \/ create_folder
    \/ file_copy
    \/ file_move
    \/ file_upload
    \/ file_rename
    \/ file_history
    \/ file_preview
    \/ file_download
    \/ auth_create
    \/ auth_delete
    \/ auth_list

Spec == Init /\ [][Next]_vars

----------------------------------------------------------------------------
(* Vocabulary of the properties.                                           *)

ResourceOps ==
    {"user_create", "user_info", "user_list", "team_list", "team_info",
     "team_user_list", "file_list", "file_info", "file_delete", "create_folder",
     "file_copy", "file_move", "file_upload", "file_rename", "file_history",
     "file_preview", "file_download", "auth_create", "auth_delete", "auth_list"}

\* the session state: a usable token is stored
Authenticated == access_token # None /\ access_token # Some("")

\* the seven kinds of error
NotAuthenticatedError == Raise("Exception", ERR_NO_TOKEN)
AuthError == Raise("Exception", ERR_TOKEN_DATA)
ConfigError == Raise("Exception", ERR_CONFIG)
ConnectivityError == Raise("Exception", ERR_URL)
UnknownError == Raise("Exception", ERR_UNKNOWN)
ValidationErrors ==
    {Raise("Exception", m) :
        m \in {ERR_USER_INFO, ERR_FILE_INFO, ERR_NEID, ERR_NO_FILE, ERR_PATH_TYPE,
               ERR_PRIVILEGE}}

\* the transport answered the latest invocation with an HTTP response
Answered == transport # None /\ transport[1].exc = ""

\* the latest invocation ended with the remote error carrying the response text
IsRemoteError ==
    /\ Answered
    /\ transport[1].status_code # 200
    /\ result = Raise("Exception", transport[1].text)

\* the arguments of the latest invocation pass the operation's validation
ArgsValid(c) ==
    CASE c.op = "user_info" -> ~(c.args.uid = None /\ c.args.user_slug = None)
      [] c.op = "file_info" -> ~(c.args.neid = None /\ c.args.path = None)
      [] c.op = "file_delete" -> c.args.neid # None
      [] c.op = "file_upload" -> file_kind(c.args.file_path) # "missing"
      [] c.op = "auth_create" ->
            /\ c.args.path_type \in {Some("ent"), Some("self")}
            /\ \A i \in 1..Len(c.args.privileges) :
                  c.args.privileges[i].privilege
                      \in {1000, 1011, 2001, 2003, 2005, 2007, 2009}
      [] c.op \in {"auth_delete", "auth_list"} ->
            c.args.path_type \in {Some("ent"), Some("self")}
      [] OTHER -> TRUE

\* file_upload could read its source file (every other operation reads none)
SourceRead(c) == c.op = "file_upload" => file_kind(c.args.file_path) = "file"

----------------------------------------------------------------------------
(* Properties.                                                             *)

\* C1: a resource operation called while no token() call has succeeded yet
\* fails with the not-authenticated error, and the number of HTTP requests
\* issued by the client does not increase.
C1_GuardedBeforeToken ==
    [][(issued = None /\ call'.op \in ResourceOps)
        => /\ result' = NotAuthenticatedError
           /\ request_count' = request_count
           /\ sent' = <<>>]_vars

\* a resource operation was refused on a client that never got a token
C1_Witness ==
    /\ issued = None
    /\ call.op = "file_upload"
    /\ result = NotAuthenticatedError
    /\ request_count = 0

\* C2: the session starts Unauthenticated; it becomes Authenticated only in a
\* token() call that returns; once Authenticated it stays Authenticated
\* whatever is called afterwards and however it ends.
C2_SessionStateMachine ==
    /\ ~Authenticated
    /\ [][/\ (call'.op = "__init__" => ~Authenticated')
          /\ (~Authenticated /\ Authenticated'
                => call'.op = "token" /\ result'.kind = "return")
          /\ (~Authenticated /\ call'.op = "token" /\ result'.kind = "return"
                => Authenticated')
          /\ (Authenticated => Authenticated')]_vars

\* an Authenticated client on which a resource operation has just failed
C2_Witness ==
    /\ Authenticated
    /\ call.op \in ResourceOps
    /\ result = UnknownError

\* C3: a token() call answered with HTTP 200 and access_token = T returns and
\* leaves the client Authenticated with T, and every request of a later
\* resource operation carries Authorization: Bearer T, T being the
\* access_token of the latest token() call that succeeded.
C3_BearerOfLatestToken ==
    /\ (call.op = "token" /\ Answered /\ transport[1].status_code = 200
        /\ transport[1].text \in {BODY_TOKEN_A, BODY_TOKEN_B}
            => /\ result.kind = "return"
               /\ Authenticated
               /\ access_token = IF transport[1].text = BODY_TOKEN_A
                                 THEN Some("abc") ELSE Some("xyz")
               /\ issued = access_token)
    /\ (issued # None => Authenticated /\ access_token = issued)
    /\ (call.op \in ResourceOps /\ Len(sent) > 0
            => /\ issued # None
               /\ \A i \in 1..Len(sent) :
                     /\ "Authorization" \in DOMAIN sent[i].headers
                     /\ sent[i].headers["Authorization"] = "Bearer " \o issued[1])

\* a resource operation sent the third request of the client, after the
\* latest successful token() call was answered with the token xyz
C3_Witness ==
    /\ call.op = "team_info"
    /\ Len(sent) = 1
    /\ issued = Some("xyz")
    /\ request_count = 3
    /\ sent[1].headers["Authorization"] = "Bearer xyz"

\* C4 (as stated): once token() has succeeded the stored token keeps its
\* value for the lifetime of the client: no later operation changes it.
C4_WriteOnce ==
    [][Authenticated => access_token' = access_token]_vars

\* C4 (amended): once token() has succeeded the stored token is never cleared,
\* and the only operation that changes it is a later token() call that
\* succeeds, which replaces it by the access_token of its own response.
C4_ReplacedOnlyByToken ==
    [][Authenticated
        => /\ Authenticated'
           /\ (access_token' # access_token
                => /\ call'.op = "token"
                   /\ result'.kind = "return"
                   /\ transport'[1].status_code = 200
                   /\ access_token'
                        = dict_get(json_loads(transport'[1].text)[1], "access_token"))]_vars

\* a token() call failed on a client that already held a token
C4_Witness ==
    /\ Authenticated
    /\ call.op = "token"
    /\ result.kind = "raise"
    /\ request_count >= 2

\* C5: a token() call answered with HTTP 200 and a JSON object that has no
\* access_token, or an empty one, fails with the auth error, and a client
\* that was Unauthenticated stays Unauthenticated.
C5_NoTokenInBody ==
    [][(/\ call'.op = "token"
        /\ transport' # None
        /\ transport'[1].exc = ""
        /\ transport'[1].status_code = 200
        /\ transport'[1].text \in {BODY_OK, BODY_TOKEN_EMPTY})
        => /\ result' = AuthError
           /\ (~Authenticated => ~Authenticated')]_vars

\* token() was answered 200 with an empty access_token on a fresh client
C5_Witness ==
    /\ call.op = "token"
    /\ transport = Some(Response(200, BODY_TOKEN_EMPTY))
    /\ result = AuthError
    /\ ~Authenticated

\* one of the three required credentials is None or empty
MissingCredential(cfg) ==
    \E f \in {"app_key", "app_secret", "host"} : cfg[f] \in {None, Some("")}

\* C6: construction fails with the configuration error for every credential
\* set in which app_key, app_secret or host is None or empty; with all three
\* present it succeeds and leaves the client Unauthenticated; https and
\* version may be left out and then are False and "v2".
C6_Construction ==
    call.op = "__init__"
        => IF MissingCredential(call.args)
           THEN result = ConfigError /\ client = "none"
           ELSE /\ result.kind = "return"
                /\ client = "live"
                /\ ~Authenticated
                /\ app_key = call.args.app_key[1]
                /\ app_secret = call.args.app_secret[1]
                /\ host = call.args.host[1]
                /\ https = (IF call.args.https = Omitted THEN FALSE
                            ELSE call.args.https[1])
                /\ version = (IF call.args.version = Omitted THEN "v2"
                              ELSE call.args.version[1])

\* construction was refused for a credential set that lacks only the host
C6_Witness ==
    /\ call.op = "__init__"
    /\ call.args.app_key = Some("ak")
    /\ call.args.app_secret = Some("sk")
    /\ call.args.host = None
    /\ result = ConfigError

\* C7: whenever the HTTP response of an operation (token() or a resource
\* operation) has a status other than 200, the operation raises the remote
\* error whose payload is the response text, character for character, and
\* returns no value.
C7_RemoteErrorCarriesBody ==
    (Answered /\ transport[1].status_code # 200)
        => /\ result.kind = "raise"
           /\ result.type = "Exception"
           /\ result.value = transport[1].text

\* team_info(tid = 99) was answered with HTTP 404
C7_Witness ==
    /\ call.op = "team_info"
    /\ call.args.tid = 99
    /\ transport = Some(Response(404, BODY_ERROR))
    /\ result = Raise("Exception", BODY_ERROR)

\* C8: every connection failure raised by the transport while the request is
\* sent, the transport library's own connection error included, makes the
\* operation fail with the connectivity error, never with the unknown error.
C8_ConnectionFailureIsConnectivityError ==
    (transport # None /\ transport[1].exc \in ConnectionFailures)
        => result = ConnectivityError

\* C9: whatever exception arises during an operation, the error surfaced to
\* the caller is one of the seven kinds; what is none of the six specific
\* kinds is surfaced as the unknown error.
C9_UnknownErrorIsCatchAll ==
    result.kind = "raise"
        => \/ result \in {ConfigError, NotAuthenticatedError, AuthError,
                          ConnectivityError, UnknownError}
           \/ result \in ValidationErrors
           \/ IsRemoteError

\* C10 (as stated): an invocation issues one HTTP request when it passes the
\* guard and the validation, and none otherwise.
C10_OnePerValidatedCall ==
    [][(call'.op = "token" \/ call'.op \in ResourceOps)
        => request_count' - request_count
            = IF (call'.op = "token" \/ Authenticated) /\ ArgsValid(call')
              THEN 1 ELSE 0]_vars

\* C10 (amended): an invocation issues exactly one HTTP request when it passes
\* the guard and the validation and, for file_upload, has read its source
\* file; otherwise it issues none; no invocation issues more than one, and
\* file_info issues one whichever of its two requests it builds.
C10_OneRequestPerCall ==
    [][(call'.op = "token" \/ call'.op \in ResourceOps)
        => /\ request_count' - request_count
                = IF /\ (call'.op = "token" \/ Authenticated)
                     /\ ArgsValid(call')
                     /\ SourceRead(call')
                  THEN 1 ELSE 0
           /\ Len(sent') = request_count' - request_count]_vars

\* file_info was called with neid and path both given and the transport
\* raised: one request went out
C10_Witness ==
    /\ call.op = "file_info"
    /\ call.args.neid # None
    /\ call.args.path # None
    /\ transport # None
    /\ transport[1].exc # ""
    /\ Len(sent) = 1

\* C11: on an Authenticated client, file_info called with neid and path both
\* None fails with the validation error and issues no HTTP request, whatever
\* nsid is.
C11_FileInfoNeedsIdentifier ==
    [][(/\ Authenticated
        /\ call'.op = "file_info"
        /\ call'.args.neid = None
        /\ call'.args.path = None)
        => /\ result' = Raise("Exception", ERR_FILE_INFO)
           /\ request_count' = request_count
           /\ sent' = <<>>]_vars

\* file_info(neid=None, nsid=2, path=None) was refused on an Authenticated
\* client
C11_Witness ==
    /\ Authenticated
    /\ call.op = "file_info"
    /\ call.args = [neid |-> None, nsid |-> Some(2), path |-> None]
    /\ result = Raise("Exception", ERR_FILE_INFO)
    /\ sent = <<>>

\* some element of the list carries a privilege outside the accepted codes
HasBadPrivilege(privileges) ==
    \E i \in 1..Len(privileges) :
        privileges[i].privilege \notin {1000, 1011, 2001, 2003, 2005, 2007, 2009}

\* C12: on an Authenticated client, auth_create fails with the validation
\* error and issues no HTTP request whenever some element of privileges, at
\* any position, carries a privilege code outside
\* {1000, 1011, 2001, 2003, 2005, 2007, 2009}.
C12_AuthCreateRejectsBadPrivilege ==
    [][(/\ Authenticated
        /\ call'.op = "auth_create"
        /\ HasBadPrivilege(call'.args.privileges))
        => /\ result' \in ValidationErrors
           /\ (call'.args.path_type \in {Some("ent"), Some("self")}
                => result' = Raise("Exception", ERR_PRIVILEGE))
           /\ request_count' = request_count
           /\ sent' = <<>>]_vars

\* auth_create was refused for a list whose second element, and only that
\* one, carries the code 3000
C12_Witness ==
    /\ Authenticated
    /\ call.op = "auth_create"
    /\ call.args.path_type = Some("ent")
    /\ Len(call.args.privileges) = 2
    /\ call.args.privileges[1].privilege = 2001
    /\ call.args.privileges[2].privilege = 3000
    /\ result = Raise("Exception", ERR_PRIVILEGE)
    /\ sent = <<>>

\* C13: on an Authenticated client, user_info called with neither uid nor
\* user_slug fails with the validation error before any HTTP request is issued.
C13_UserInfoNeedsIdentifier ==
    [][(/\ Authenticated
        /\ call'.op = "user_info"
        /\ call'.args.uid = None
        /\ call'.args.user_slug = None)
        => /\ result' = Raise("Exception", ERR_USER_INFO)
           /\ request_count' = request_count
           /\ sent' = <<>>]_vars

\* user_info() without identifiers was refused on an Authenticated client
C13_Witness ==
    /\ Authenticated
    /\ call.op = "user_info"
    /\ call.args = [uid |-> None, user_slug |-> None]
    /\ result = Raise("Exception", ERR_USER_INFO)
    /\ request_count >= 1

\* the operations that take a path_type, and the value the caller supplied
PathTypeOps ==
    {"create_folder", "file_upload", "file_copy", "file_move", "auth_create",
     "auth_delete", "auth_list"}

PathTypeArg(c) ==
    IF c.op \in {"file_copy", "file_move"} THEN c.args.to_path_type
    ELSE c.args.path_type

\* C14 (as stated): on an Authenticated client, every operation that takes a
\* path_type (create_folder, file_upload, file_copy, file_move, auth_create,
\* auth_delete, auth_list) refuses a supplied value other than "ent" or "self"
\* with a validation error and issues no HTTP request.
C14_PathTypeRejected ==
    [][(/\ Authenticated
        /\ call'.op \in PathTypeOps
        /\ PathTypeArg(call') \notin {Omitted, None, Some("ent"), Some("self")})
        => /\ result' \in ValidationErrors
           /\ request_count' = request_count
           /\ sent' = <<>>]_vars

\* C15: the request file_list builds has a form body with exactly the keys
\* path, path_type, page_num and page_size; path, page_num and page_size are
\* the caller's values and path_type is "ent".
C15_FileListBody ==
    (call.op = "file_list")
        => \A i \in 1..Len(sent) :
            /\ sent[i].data # None
            /\ DOMAIN sent[i].data[1] = {"path", "path_type", "page_num", "page_size"}
            /\ sent[i].data[1].path = call.args.path
            /\ sent[i].data[1].page_num = call.args.page_num
            /\ sent[i].data[1].page_size = call.args.page_size
            /\ sent[i].data[1].path_type = "ent"

\* file_list(path="/a/b", page_num=0, page_size=10) sent its request
C15_Witness ==
    /\ call.op = "file_list"
    /\ call.args = [path |-> "/a/b", page_num |-> 0, page_size |-> 10]
    /\ Len(sent) = 1
    /\ sent[1].data = Some([path |-> "/a/b", path_type |-> "ent",
                            page_num |-> 0, page_size |-> 10])

C17_CredentialsImmutable ==
    [][(client = "live" \/ call'.op # "__init__")
        => /\ app_key' = app_key
           /\ app_secret' = app_secret
           /\ https' = https
           /\ host' = host
           /\ version' = version
           /\ base_url' = base_url]_vars

\* after a token() that returned and an operation that raised, the fields are
\* those the constructor was given
C17_Witness ==
    /\ client = "live"
    /\ issued # None
    /\ call.op \in ResourceOps
    /\ result.kind = "raise"
    /\ request_count >= 2
    /\ app_key = "ak"
    /\ app_secret = "sk"
    /\ host = "filez.xxx.com:3333"
    /\ https = TRUE
    /\ version = "v1"
    /\ base_url = "https://filez.xxx.com:3333/v1"

\* s starts with prefix
StartsWith(s, prefix) ==
    Len(s) >= Len(prefix) /\ SubSeq(s, 1, Len(prefix)) = prefix

\* C18: the base URL of a constructed client is "https://" + host + "/" +
\* version when the https flag is true and "http://" + host + "/" + version
\* when it is false, and the URL of every request issued starts with it.
C18_BaseUrl ==
    (client = "live")
        => /\ base_url = (IF https THEN "https://" ELSE "http://")
                         \o host \o "/" \o version
           /\ \A i \in 1..Len(sent) : StartsWith(sent[i].url, base_url)

\* a client constructed with https=True has sent a request to an https URL
C18_Witness ==
    /\ client = "live"
    /\ https = TRUE
    /\ base_url = "https://filez.xxx.com:3333/v1"
    /\ Len(sent) = 1
    /\ call.op = "team_info"
    /\ sent[1].url = "https://filez.xxx.com:3333/v1/api/team/2"

\* the endpoint path the specification lists for a call, with its identifiers
SpecEndpoint(c) ==
    CASE c.op = "token" -> "/oauth/token"
      [] c.op = "user_create" -> "/user"
      [] c.op = "user_info" ->
            IF c.args.uid \notin {None, Some(0)}
            THEN "/user/" \o ToString(c.args.uid[1])
            ELSE IF c.args.user_slug \notin {None, Some("")} THEN "/user/slug"
            ELSE "/user"
      [] c.op = "user_list" -> "/user"
      [] c.op = "team_list" -> "/team"
      [] c.op = "team_info" -> "/team/" \o ToString(c.args.tid)
      [] c.op = "team_user_list" -> "/teamuser/" \o ToString(c.args.tid) \o "/users"
      [] c.op = "file_list" -> "/file"
      [] c.op = "file_info" ->
            IF c.args.neid = None THEN "/file/path"
            ELSE "/file/" \o c.args.neid[1]
      [] c.op = "file_delete" -> "/file/" \o c.args.neid[1]
      [] c.op = "create_folder" -> "/file/folder"
      [] c.op = "file_copy" -> "/file/copy"
      [] c.op = "file_move" -> "/file/move"
      [] c.op = "file_upload" -> "/file/content"
      [] c.op = "file_rename" -> "/file/rename"
      [] c.op = "file_history" -> "/file/" \o c.args.neid \o "/revision"
      [] c.op = "file_preview" -> "/preview/" \o c.args.neid
      [] c.op = "file_download" -> "/file/content/download"
      [] c.op = "auth_create" -> "/auth/batch_create"
      [] c.op = "auth_delete" -> "/auth/batch_delete"
      [] c.op = "auth_list" -> "/auth/list"

\* C19 (as stated): every request issued targets the base URL immediately
\* followed by the endpoint path listed for the operation.
C19_SpecEndpoints ==
    \A i \in 1..Len(sent) :
        StartsWith(sent[i].url, base_url \o SpecEndpoint(call))

\* C19 (amended): token() targets the base URL followed by /oauth/token and
\* user_create the base URL followed by /user; every other operation targets
\* the base URL followed by /api and then the endpoint path listed for it.
C19_ApiEndpoints ==
    \A i \in 1..Len(sent) :
        StartsWith(sent[i].url,
                   base_url
                   \o (IF call.op \in {"token", "user_create"} THEN "" ELSE "/api")
                   \o SpecEndpoint(call))

\* user_info(uid=152) sent its request to <base>/api/user/152
C19_Witness ==
    /\ call.op = "user_info"
    /\ call.args.uid = Some(152)
    /\ call.args.user_slug = None
    /\ Len(sent) = 1
    /\ sent[1].url = base_url \o "/api/user/152"

\* C20: the request of token() carries Authorization: Basic
\* base64(app_key:app_secret) of the constructor's credentials ("YWs6c2s=" is
\* the base64 of "ak:sk"), scope "all" and the given slug, also when the client
\* already holds a token; the requests of the resource operations carry
\* Authorization: Bearer <stored token> and never the Basic credentials.
C20_AuthorizationHeaders ==
    \A i \in 1..Len(sent) :
        IF call.op = "token"
        THEN /\ (app_key = "ak" /\ app_secret = "sk")
                    => sent[i].headers["Authorization"] = "Basic YWs6c2s="
             /\ StartsWith(sent[i].headers["Authorization"], "Basic ")
             /\ sent[i].data.scope = "all"
             /\ sent[i].data.grant_type = "client_with_su"
             /\ sent[i].data.slug = call.args.slug
        ELSE /\ access_token # None
             /\ sent[i].headers["Authorization"] = "Bearer " \o access_token[1]
             /\ ~StartsWith(sent[i].headers["Authorization"], "Basic")

\* a second token() on a client that already held a token sent the Basic
\* credentials again
C20_Witness ==
    /\ call.op = "token"
    /\ call.args.slug = "aiden"
    /\ issued # None
    /\ request_count >= 2
    /\ result.kind = "raise"
    /\ Len(sent) = 1
    /\ sent[1].headers["Authorization"] = "Basic YWs6c2s="

----------------------------------------------------------------------------
\* src/filez/calculations.py: four pure functions, applied to numbers drawn
\* from a bounded set.

MaxNum == 5

\* A Python int is unbounded. The value k * 10**400 + n is written
\* [k |-> k, n |-> n]: k = 0 for the ints of the bounded range, k # 0 for an
\* int beyond the largest float (about 1.8 * 10**308).
PyInt(n) == [k |-> 0, n |-> n]

Huge == [k |-> 1, n |-> 0]

CalcNumbers == {PyInt(i) : i \in -MaxNum..MaxNum} \cup {Huge}

is_huge(v) == v.k # 0

is_zero(v) == v.k = 0 /\ v.n = 0

abs(n) == IF n < 0 THEN -n ELSE n

RECURSIVE gcd(_, _)
gcd(m, n) == IF n = 0 THEN abs(m) ELSE gcd(n, m % n)

RECURSIVE is_pow2(_)
is_pow2(d) == d = 1 \/ (d > 1 /\ d % 2 = 0 /\ is_pow2(d \div 2))

\* A float is the double nearest to num/den (den > 0, lowest terms); it is
\* exactly num/den when den is a power of two and exact says nothing was
\* rounded away before.
Float(num, den, exact) ==
    LET g == gcd(abs(num), abs(den))
        sg == IF den < 0 THEN -1 ELSE 1
    IN [num |-> sg * (num \div g), den |-> sg * (den \div g),
        exact |-> exact /\ is_pow2(abs(den) \div g)]

ERR_INT_TOO_LARGE == "int too large to convert to float"

ERR_DIV_TOO_LARGE == "integer division result too large for a float"

ERR_DIV_ZERO == "division by zero"

\* float(v) of an int v
py_float(v) ==
    IF is_huge(v) THEN Raise("OverflowError", ERR_INT_TOO_LARGE)
    ELSE Return("float", Float(v.n, 1, TRUE))

\* a + b, a - b and a * b of two ints; the product of two ints beyond the
\* float range is kept as an int beyond the float range with the right sign
int_add(a, b) == [k |-> a.k + b.k, n |-> a.n + b.n]

int_sub(a, b) == [k |-> a.k - b.k, n |-> a.n - b.n]

int_mul(a, b) ==
    IF is_huge(a) /\ is_huge(b) THEN [k |-> a.k * b.k, n |-> 0]
    ELSE [k |-> a.k * b.n + a.n * b.k, n |-> a.n * b.n]

\* a / b of two ints, b not 0 (int.__truediv__): the correctly rounded
\* quotient, OverflowError when it is beyond the float range, 0.0 when it is
\* below the smallest float
true_divide(a, b) ==
    IF is_zero(b) THEN Raise("ZeroDivisionError", ERR_DIV_ZERO)
    ELSE IF ~is_huge(a) /\ ~is_huge(b) THEN Return("float", Float(a.n, b.n, TRUE))
    ELSE IF is_huge(a) /\ ~is_huge(b) THEN Raise("OverflowError", ERR_DIV_TOO_LARGE)
    ELSE IF ~is_huge(a) THEN Return("float", Float(0, 1, a.n = 0))
    ELSE Return("float", Float(a.k, b.k, a.n * b.k = b.n * a.k))

add(a, b) == py_float(int_add(a, b))

\* (mutant) the operands change places
subtract_swapped(a, b) == py_float(int_sub(b, a))

subtract(a, b) == py_float(int_sub(a, b))

multiply(a, b) == py_float(int_mul(a, b))

\* (mutant) a zero divisor yields 0.0
divide_zero_result(a, b) ==
    IF is_zero(b) THEN Return("float", Float(0, 1, TRUE))
    ELSE true_divide(a, b)

divide(a, b) ==
    IF is_zero(b) THEN Raise("ZeroDivisionError", ERR_DIV_ZERO)
    ELSE true_divide(a, b)

\* a call of one of the functions: its outcome becomes the result
calculated(op, a, b, outcome) ==
    /\ call' = [op |-> op, args |-> [a |-> a, b |-> b]]
    /\ result' = [kind |-> outcome.kind, type |-> outcome.type,
                  value |-> outcome.value]
    /\ UNCHANGED <<client, credentials, access_token, request_count, sent,
                   transport, issued>>

call_add == \E a \in CalcNumbers, b \in CalcNumbers : calculated("add", a, b, add(a, b))

call_subtract ==
    \E a \in CalcNumbers, b \in CalcNumbers :
        calculated("subtract", a, b, subtract(a, b))

call_multiply ==
    \E a \in CalcNumbers, b \in CalcNumbers :
        calculated("multiply", a, b, multiply(a, b))

call_divide ==
    \E a \in CalcNumbers, b \in CalcNumbers :
        calculated("divide", a, b, divide(a, b))

CalcNext == call_add \/ call_subtract \/ call_multiply \/ call_divide

Calculations == Init /\ [][CalcNext]_vars

\* the last call raised the exception type with the message msg
Raised_(type, msg) ==
    result.kind = "raise" /\ result.type = type /\ result.value = msg

\* the last call returned the float that is exactly the integer n
ReturnedFloat(n) ==
    /\ result.kind = "return"
    /\ result.type = "float"
    /\ result.value.num = n
    /\ result.value.den = 1
    /\ result.value.exact

C23_TokenFrame ==
    [][/\ (call'.op = "token" /\ result'.kind = "raise")
            => access_token' = access_token
       /\ (call'.op \in ResourceOps) => access_token' = access_token
       /\ (access_token' # access_token)
            => call'.op = "token" /\ result'.kind = "return"]_vars

\* an Authenticated client called token() again, got a 200 answer without
\* access_token, and still holds the token issued before
C23_Witness ==
    /\ call.op = "token"
    /\ transport # None
    /\ transport[1].exc = ""
    /\ transport[1].status_code = 200
    /\ transport[1].text = BODY_OK
    /\ result.kind = "raise"
    /\ result.value = ERR_TOKEN_DATA
    /\ Authenticated
    /\ access_token = issued

\* the nsid a call sends: the caller's, or 1 when it is None or left out
SentNsid(c) ==
    IF c.args.nsid \in {None, Omitted} THEN 1 ELSE c.args.nsid[1]

\* C24: a file_info call that issues a request issues exactly one, selected by
\* neid alone: with neid given, a GET of <base>/api/file/<neid>/?nsid=<nsid>
\* without body, whether path is given or not; with neid None and path given,
\* a POST to <base>/api/file/path with the body {path, path_type: "ent"}.
C24_FileInfoRequest ==
    (call.op = "file_info" /\ transport # None)
        => /\ Len(sent) = 1
           /\ IF call.args.neid # None
              THEN /\ sent[1].method = "GET"
                   /\ sent[1].url = base_url \o "/api/file/" \o call.args.neid[1]
                                    \o "/?nsid=" \o ToString(SentNsid(call))
                   /\ sent[1].data = None
              ELSE /\ call.args.path # None
                   /\ sent[1].method = "POST"
                   /\ sent[1].url = base_url \o "/api/file/path"
                   /\ sent[1].data # None
                   /\ DOMAIN sent[1].data[1] = {"path", "path_type"}
                   /\ sent[1].data[1].path = call.args.path
                   /\ sent[1].data[1].path_type = "ent"

\* file_info with neid and path both given sent the GET by neid
C24_Witness ==
    /\ call.op = "file_info"
    /\ call.args.neid = Some("1599694982598365196")
    /\ call.args.path = Some("/a/b")
    /\ Len(sent) = 1
    /\ sent[1].method = "GET"
    /\ sent[1].data = None

\* C25: file_info by neid and file_delete send nsid=1 when nsid is None and
\* the caller's value unchanged when it is given.
C25_NsidDefault ==
    (call.op \in {"file_info", "file_delete"} /\ transport # None
     /\ call.args.neid # None)
        => \A i \in 1..Len(sent) :
            sent[i].url
                = base_url \o "/api/file/" \o call.args.neid[1]
                  \o (IF call.op = "file_info" THEN "/" ELSE "")
                  \o "?nsid="
                  \o (IF call.args.nsid = None THEN "1"
                      ELSE IF call.args.nsid = Omitted THEN "1"
                      ELSE ToString(call.args.nsid[1]))

\* file_info(neid, nsid=None) sent nsid=1
C25_Witness ==
    /\ call.op = "file_info"
    /\ call.args.nsid = None
    /\ call.args.neid = Some("1599694982598365196")
    /\ Len(sent) = 1
    /\ sent[1].url = base_url \o "/api/file/1599694982598365196/?nsid=1"

\* the path_type that the i-th request of a call carries in its body
SentPathType(i) ==
    IF call.op = "file_upload" THEN sent[i].data[1].multipart.path_type
    ELSE IF call.op \in {"file_copy", "file_move"} THEN sent[i].data[1].to_path_type
    ELSE sent[i].data[1].path_type

\* C26: create_folder, file_upload, file_copy and file_move send path_type
\* (to_path_type for the last two) "ent" when the argument is None or left
\* out, and the caller's value unchanged otherwise.
C26_PathTypeDefault ==
    (call.op \in {"create_folder", "file_upload", "file_copy", "file_move"})
        => \A i \in 1..Len(sent) :
            /\ sent[i].data # None
            /\ SentPathType(i)
                = (IF PathTypeArg(call) \in {None, Omitted} THEN "ent"
                   ELSE PathTypeArg(call)[1])

\* file_upload(path_type=None) of an existing file sent path_type "ent"
C26_Witness ==
    /\ call.op = "file_upload"
    /\ call.args.path_type = None
    /\ call.args.file_path = "/data/xx.docx"
    /\ Len(sent) = 1
    /\ sent[1].data[1].multipart.path_type = "ent"
    /\ sent[1].data[1].multipart.path = call.args.to_path

\* the file_list of a request names exactly the one neid
NamesOneFile(req, neid) ==
    /\ req.data[1].file_list[1] = "json"
    /\ Len(req.data[1].file_list[2]) = 1
    /\ DOMAIN req.data[1].file_list[2][1] = {"neid"}
    /\ req.data[1].file_list[2][1].neid = neid

\* C27: the request of a valid auth_create carries an auth_list with one
\* entry per element of privileges, in the same order, with agentId the
\* element's uid, privilegeType its privilege, agentType "user" and
\* isSubteamInheritable true, and a file_list naming exactly the given neid;
\* the request of auth_delete carries one delete_list entry per uid, in order.
C27_AuthLists ==
    /\ (call.op = "auth_create")
        => \A i \in 1..Len(sent) :
            LET al == sent[i].data[1].auth_list[2]
                ps == call.args.privileges
            IN /\ sent[i].data[1].auth_list[1] = "json"
               /\ Len(al) = Len(ps)
               /\ \A j \in 1..Len(ps) :
                    /\ DOMAIN al[j] = {"agentId", "agentType", "isSubteamInheritable",
                                       "privilegeType"}
                    /\ al[j].agentId = <<ps[j].uid>>
                    /\ al[j].privilegeType = <<ps[j].privilege>>
                    /\ al[j].agentType = "user"
                    /\ al[j].isSubteamInheritable = TRUE
               /\ NamesOneFile(sent[i], call.args.neid)
    /\ (call.op = "auth_delete")
        => \A i \in 1..Len(sent) :
            LET dl == sent[i].data[1].delete_list[2]
                us == call.args.uids
            IN /\ sent[i].data[1].delete_list[1] = "json"
               /\ Len(dl) = Len(us)
               /\ \A j \in 1..Len(us) :
                    /\ DOMAIN dl[j] = {"agentId", "agentType"}
                    /\ dl[j].agentId = us[j]
                    /\ dl[j].agentType = "user"
               /\ NamesOneFile(sent[i], call.args.neid)

\* auth_create for uid 4 (2001) then uid 5 (1000) sent the two entries in
\* that order
C27_Witness ==
    /\ call.op = "auth_create"
    /\ Len(call.args.privileges) = 2
    /\ call.args.privileges[1].uid = 4
    /\ call.args.privileges[2].uid = 5
    /\ Len(sent) = 1
    /\ Len(sent[1].data[1].auth_list[2]) = 2
    /\ sent[1].data[1].auth_list[2][1].agentId = <<4>>
    /\ sent[1].data[1].auth_list[2][2].agentId = <<5>>
    /\ sent[1].data[1].auth_list[2][2].privilegeType = <<1000>>

\* C28: the token is looked at before the arguments: a resource operation
\* called without a stored token with arguments that validation would refuse
\* (file_info without neid and path, auth_create with a bad privilege or
\* path_type, user_info without identifier, file_delete without neid,
\* file_upload of a missing file) raises the not-authenticated error, not a
\* validation error, and sends nothing.
C28_GuardBeforeValidation ==
    [][(/\ ~Authenticated
        /\ call'.op \in ResourceOps
        /\ ~ArgsValid(call'))
        => /\ result'.kind = "raise"
           /\ result'.type = "Exception"
           /\ result'.value = ERR_NO_TOKEN
           /\ sent' = <<>>
           /\ request_count' = request_count]_vars

\* file_upload of a missing file on a client that never got a token was
\* refused for the missing token
C28_Witness ==
    /\ client = "live"
    /\ issued = None
    /\ ~Authenticated
    /\ call.op = "file_upload"
    /\ call.args.file_path = "/data/missing.docx"
    /\ result.kind = "raise"
    /\ result.value = ERR_NO_TOKEN
    /\ sent = <<>>

\* C29 (as stated): every request user_info issues goes to exactly one of
\* <base>/api/user/<uid> and <base>/api/user/slug?user_slug=<user_slug>,
\* never to the bare <base>/api/user and never to a combination of the two,
\* for every accepted uid and user_slug (uid 0, an empty user_slug and both
\* given included).
C29_OneUserForm ==
    (call.op = "user_info")
        => \A i \in 1..Len(sent) :
            LET byUid ==
                    /\ call.args.uid # None
                    /\ sent[i].url
                        = base_url \o "/api/user/" \o ToString(call.args.uid[1])
                bySlug ==
                    /\ call.args.user_slug # None
                    /\ sent[i].url
                        = base_url \o "/api/user/slug?user_slug="
                          \o call.args.user_slug[1]
            IN /\ byUid \/ bySlug
               /\ ~(byUid /\ bySlug)
               /\ sent[i].url # base_url \o "/api/user"
====
